---- MODULE Spec2Model ----
(*
  Model of the Login screen's authentication flow, src/screens/Auth/Login.js.

  handleLogin is an async function: it runs atomically between its await
  points (the axios.post call and the three AsyncStorage.setItem calls), so
  each action below is one such atomic stretch of the handler.  The remote
  service, the JWT payloads and the outcome of each AsyncStorage write are
  the environment: they are drawn from small finite sets.

  JavaScript values are tagged records (the tag is JavaScript's typeof); JS
  strings are TLA+ strings, so String.prototype.includes is computed on the
  characters.
*)
EXTENDS Integers, Sequences, FiniteSets, TLC

-----------------------------------------------------------------------------
(* Bounds *)

\* Number of handleLogin invocations that can be in flight at once.
MaxRuns == 2

Runs == 1..MaxRuns

-----------------------------------------------------------------------------
(* JavaScript values *)

Undefined == [t |-> "undefined"]
Null      == [t |-> "null"]
Str(s)    == [t |-> "string", s |-> s]
Num(n)    == [t |-> "number", n |-> n]
\* a structured JSON body such as {"id": 7}
Obj(id)   == [t |-> "object", id |-> id]

\* the test written as a comparison with null: 0 and "" pass it
Truthy_NullCheck(v) == v.t \in {"string", "number", "object"}

\* JavaScript ToBoolean, as used by `!studentNumber`, `!token`, `!userRole`, `a || b`
Truthy(v) ==
    CASE v.t = "string" -> v.s # ""
      [] v.t = "number" -> v.n # 0
      [] v.t = "object" -> TRUE
      [] OTHER          -> FALSE

Digit(d) ==
    CASE d = 0 -> "0" [] d = 1 -> "1" [] d = 2 -> "2" [] d = 3 -> "3"
      [] d = 4 -> "4" [] d = 5 -> "5" [] d = 6 -> "6" [] d = 7 -> "7"
      [] d = 8 -> "8" [] d = 9 -> "9"

RECURSIVE NatToString(_)
NatToString(n) ==
    IF n < 10 THEN Digit(n) ELSE NatToString(n \div 10) \o Digit(n % 10)

\* Number.prototype.toString() on an integer
NumberToString(n) == IF n < 0 THEN "-" \o NatToString(-n) ELSE NatToString(n)

\* String.prototype.includes
Includes(s, sub) ==
    \E i \in 1..(Len(s) - Len(sub) + 1) : SubSeq(s, i, i + Len(sub) - 1) = sub

\* the tag matched without regard to case
IsRoleTag_AnyCase(role) == Includes(role, "ROLE_") \/ Includes(role, "role_")

\* the predicate of line 68: (role) => role.includes('ROLE_')
IsRoleTag(role) == Includes(role, "ROLE_")

\* the last matching entry instead of the first
RECURSIVE FindRole_Last(_)
FindRole_Last(roles) ==
    IF roles = <<>> THEN Undefined
    ELSE IF IsRoleTag(roles[Len(roles)]) THEN Str(roles[Len(roles)])
    ELSE FindRole_Last(SubSeq(roles, 1, Len(roles) - 1))

\* Array.prototype.find with that predicate: the first matching entry of the
\* array in index order, undefined when there is none
RECURSIVE FindRole(_)
FindRole(roles) ==
    IF roles = <<>> THEN Undefined
    ELSE IF IsRoleTag(Head(roles)) THEN Str(Head(roles))
    ELSE FindRole(Tail(roles))

-----------------------------------------------------------------------------
(* The environment's inputs *)

\* user input of the two text fields
Usernames == {"", "alice"}
Passwords == {"", "wrongpass"}

\* tokens the service may put in the jwt-token header
TokGuest    == "jwt.guest"
TokEmployee == "jwt.employee"
TokStudent  == "jwt.student"
TokBoth     == "jwt.both"
TokNoRole   == "jwt.norole"
TokNoClaim  == "jwt.noclaim"
TokGarbage  == "not-a-jwt"

TokenStrings ==
    {TokGuest, TokEmployee, TokStudent, TokBoth, TokNoRole, TokNoClaim, TokGarbage}

\* a decoder that never throws: an unreadable token decodes to an empty payload
jwtDecode_Lenient(token) ==
    CASE token = TokGuest    -> [ok |-> TRUE, hasAuthorities |-> TRUE,
                                 authorities |-> <<"ROLE_GUEST">>]
      [] token = TokEmployee -> [ok |-> TRUE, hasAuthorities |-> TRUE,
                                 authorities |-> <<"ROLE_EMPLOYEE", "ROLE_ADMIN_SHADOW">>]
      [] token = TokStudent  -> [ok |-> TRUE, hasAuthorities |-> TRUE,
                                 authorities |-> <<"openid", "ROLE_STUDENT">>]
      [] token = TokBoth     -> [ok |-> TRUE, hasAuthorities |-> TRUE,
                                 authorities |-> <<"ROLE_EMPLOYEE,ROLE_GUEST">>]
      [] token = TokNoRole   -> [ok |-> TRUE, hasAuthorities |-> TRUE,
                                 authorities |-> <<"openid", "role_guest">>]
      [] OTHER               -> [ok |-> TRUE, hasAuthorities |-> FALSE,
                                 authorities |-> <<>>]

\* jwtDecode(token): either throws (ok = FALSE) or returns the payload; the
\* payload's authorities claim is an array of strings or is missing.
jwtDecode(token) ==
    CASE token = TokGuest    -> [ok |-> TRUE, hasAuthorities |-> TRUE,
                                 authorities |-> <<"ROLE_GUEST">>]
      [] token = TokEmployee -> [ok |-> TRUE, hasAuthorities |-> TRUE,
                                 authorities |-> <<"ROLE_EMPLOYEE", "ROLE_ADMIN_SHADOW">>]
      [] token = TokStudent  -> [ok |-> TRUE, hasAuthorities |-> TRUE,
                                 authorities |-> <<"openid", "ROLE_STUDENT">>]
      [] token = TokBoth     -> [ok |-> TRUE, hasAuthorities |-> TRUE,
                                 authorities |-> <<"ROLE_EMPLOYEE,ROLE_GUEST">>]
      [] token = TokNoRole   -> [ok |-> TRUE, hasAuthorities |-> TRUE,
                                 authorities |-> <<"openid", "role_guest">>]
      [] token = TokNoClaim  -> [ok |-> TRUE, hasAuthorities |-> FALSE,
                                 authorities |-> <<>>]
      [] OTHER               -> [ok |-> FALSE, hasAuthorities |-> FALSE,
                                 authorities |-> <<>>]

\* response.headers['jwt-token']
HeaderValues == {Undefined, Str("")} \cup {Str(t) : t \in TokenStrings}

\* response.data of a resolved response
BodyValues ==
    {Null, Str(""), Num(0), Num(2021001234), Str("2021001234"), Str("G-17"), Obj(7)}

\* axios resolves the promise for a 2xx status (its default validateStatus)
ResolvedStatuses == {200, 201, 204}

\* a resolved response with status 200 carries any body and any header; for
\* the other 2xx statuses two payloads are enough, one of them complete
Responses ==
    [kind : {"response"}, status : {200}, data : BodyValues, token : HeaderValues]
    \cup
    [kind : {"response"}, status : ResolvedStatuses \ {200},
     data : {Null, Str("G-17")}, token : {Undefined, Str(TokStudent)}]

\* error.response.data of a rejected request
ErrorBodies ==
    {Undefined,
     [t |-> "object", message |-> Undefined],
     [t |-> "object", message |-> Str("")],
     [t |-> "object", message |-> Str("Account is locked.")]}

\* axios rejects with error.response set for a status outside 2xx
RejectedStatuses == {400, 401, 500}

\* a thrown value without response and request properties: what jwtDecode
\* and AsyncStorage.setItem throw, and axios for a request it could not set up
PlainError == [kind |-> "error", response |-> Undefined, request |-> FALSE]

\* axios rejections: the server answered outside 2xx; the request was sent and
\* no response came; the request could not be set up
Rejections ==
    { [kind |-> "error", response |-> [t |-> "object", status |-> st, data |-> d],
       request |-> TRUE] : st \in RejectedStatuses, d \in ErrorBodies }
    \cup {[kind |-> "error", response |-> Undefined, request |-> TRUE]}
    \cup {PlainError}

-----------------------------------------------------------------------------
(* The texts handleLogin shows *)

MsgMissingSubjectId == "Student number not received from server."
MsgMissingToken     == "Token not received from server."
MsgUnauthorized     == "Unauthorized role. Please try again."
MsgLoginFailed      == "Login failed. Please check your credentials."
MsgInvalidCreds     == "Incorrect username or password. Please try again."
MsgInvalidRequest   == "Invalid request. Please check your input."
MsgNoResponse       == "No response from server. Check network or server status."
MsgRequestError     == "Request error. Please try again."

Alert(title, text) == [title |-> title, text |-> text]

-----------------------------------------------------------------------------
(* handleLogin, the code between its await points *)

NoLocal == [studentNumber |-> Undefined, token |-> Undefined, userRole |-> Undefined]

\* the conversion left out: a numeric body is kept as a number
NormalizeStudentNumber_Keep(data) == data

\* lines 54-56: a number is converted with toString(), anything else is kept
NormalizeStudentNumber(data) ==
    IF data.t = "number" THEN Str(NumberToString(data.n)) ELSE data

\* lines 65-68: decodedToken.authorities || [], then roles.find(...)
UserRoleOf(decodedToken) ==
    FindRole(IF decodedToken.hasAuthorities THEN decodedToken.authorities ELSE <<>>)

\* every 2xx status taken as success
StatusIsOk_Any2xx(status) == status >= 200 /\ status < 300

\* line 46: response.status === 200
StatusIsOk(status) == status = 200

\* What the try block does with a resolved response, up to its first
\* AsyncStorage.setItem (lines 46-75 and 99-101).  next is "return" (the
\* handler returned), "throw" (control passes to the catch block) or
\* "setRole" (the handler is suspended in the first setItem).
OnResponse(response) ==
    IF ~StatusIsOk(response.status)
    THEN [next |-> "return", msgs |-> <<MsgLoginFailed>>, alerts |-> <<>>,
          decodes |-> <<>>, local |-> NoLocal]
    ELSE IF ~Truthy(response.data)
    THEN [next |-> "return", msgs |-> <<MsgMissingSubjectId>>, alerts |-> <<>>,
          decodes |-> <<>>, local |-> NoLocal]
    ELSE IF ~Truthy(response.token)
    THEN [next |-> "return", msgs |-> <<MsgMissingToken>>, alerts |-> <<>>,
          decodes |-> <<>>, local |-> NoLocal]
    ELSE IF ~jwtDecode(response.token.s).ok
    THEN [next |-> "throw", msgs |-> <<>>, alerts |-> <<>>,
          decodes |-> <<response.token>>, local |-> NoLocal]
    ELSE IF ~Truthy(UserRoleOf(jwtDecode(response.token.s)))
    THEN [next |-> "return", msgs |-> <<>>,
          alerts |-> <<Alert("Error", MsgUnauthorized)>>,
          decodes |-> <<response.token>>, local |-> NoLocal]
    ELSE [next |-> "setRole", msgs |-> <<>>, alerts |-> <<>>,
          decodes |-> <<response.token>>,
          local |-> [studentNumber |-> NormalizeStudentNumber(response.data),
                     token |-> response.token,
                     userRole |-> UserRoleOf(jwtDecode(response.token.s))]]

\* the server's message never read
ServerMessageOf_None(data) == Undefined

\* error.response.data?.message
ServerMessageOf(data) == IF data.t = "object" THEN data.message ELSE Undefined

\* the special case tests for 401 instead of 400
IsBadRequest_401(error) == error.response # Undefined /\ error.response.status = 401

\* line 103: error.response && error.response.status === 400
IsBadRequest(error) == error.response # Undefined /\ error.response.status = 400

\* the error.request branch never taken
RequestWasSent_Never(error) == FALSE

\* line 109: error.request, reached when error.response is not set
RequestWasSent(error) == error.request

\* the final else branch missing: an error that is neither a response nor a
\* request error is swallowed
CatchBlock_NoElse(error) ==
    IF IsBadRequest(error)
    THEN [msgs |-> <<MsgInvalidCreds>>, alerts |-> <<>>]
    ELSE IF error.response # Undefined
    THEN LET m == ServerMessageOf(error.response.data)
             serverMessage == IF Truthy(m) THEN m.s ELSE MsgInvalidRequest
         IN  [msgs |-> <<serverMessage>>, alerts |-> <<Alert("Login Error", serverMessage)>>]
    ELSE IF RequestWasSent(error)
    THEN [msgs |-> <<MsgNoResponse>>, alerts |-> <<Alert("Login Error", MsgNoResponse)>>]
    ELSE [msgs |-> <<>>, alerts |-> <<>>]

\* The catch block (lines 102-116): the message it sets and the alert it shows
CatchBlock(error) ==
    IF IsBadRequest(error)
    THEN [msgs |-> <<MsgInvalidCreds>>, alerts |-> <<>>]
    ELSE IF error.response # Undefined
    THEN LET m == ServerMessageOf(error.response.data)
             serverMessage == IF Truthy(m) THEN m.s ELSE MsgInvalidRequest
         IN  [msgs |-> <<serverMessage>>, alerts |-> <<Alert("Login Error", serverMessage)>>]
    ELSE IF RequestWasSent(error)
    THEN [msgs |-> <<MsgNoResponse>>, alerts |-> <<Alert("Login Error", MsgNoResponse)>>]
    ELSE [msgs |-> <<MsgRequestError>>, alerts |-> <<Alert("Login Error", MsgRequestError)>>]

\* the ROLE_GUEST branch missing
IdentKey_NoGuest(userRole) ==
    IF Includes(userRole.s, "ROLE_EMPLOYEE") THEN "employeeNumber" ELSE "studentNumber"

\* lines 78, 85, 92: the AsyncStorage key of the identifier
IdentKey(userRole) ==
    IF Includes(userRole.s, "ROLE_GUEST") THEN "guestId"
    ELSE IF Includes(userRole.s, "ROLE_EMPLOYEE") THEN "employeeNumber"
    ELSE "studentNumber"

\* lines 81-84, 88-91, 94-97: the arguments of navigation.replace
Destination(userRole, studentNumber) ==
    IF Includes(userRole.s, "ROLE_GUEST")
    THEN [name |-> "Main", screen |-> "Guests", params |-> [screen |-> "GuestViolation"]]
    ELSE IF Includes(userRole.s, "ROLE_EMPLOYEE")
    THEN [name |-> "Main", screen |-> "Employees", params |-> [screen |-> "EmployeeReport"]]
    ELSE [name |-> "Main", screen |-> "Students",
          params |-> [screen |-> "StudentViolation", studentNumber |-> studentNumber]]

-----------------------------------------------------------------------------
(* State *)

VARIABLES
    username,      \* useState, line 15
    password,      \* useState, line 16
    errorMessage,  \* useState, line 18: the inline message
    storage,       \* AsyncStorage: key -> stored value, NoItem when the key is unset
    routes,        \* the navigator's stack of routes; the last one is on screen
    pc,            \* per invocation of handleLogin: where it is suspended
    userData,      \* per invocation: the request body in flight (line 39)
    local,         \* per invocation: studentNumber, token, userRole
    delivered,     \* per invocation: what axios.post resolved or rejected with
    log            \* per invocation: the calls it has made so far

vars == <<username, password, errorMessage, storage, routes,
          pc, userData, local, delivered, log>>

StorageKeys == {"role", "token", "guestId", "employeeNumber", "studentNumber"}
IdentKeys   == {"guestId", "employeeNumber", "studentNumber"}

NoItem     == [t |-> "noitem"]
NoUserData == [username |-> "", password |-> "", sent |-> FALSE]
NoDelivery == [kind |-> "none"]
LoginRoute == [name |-> "Login"]

\* msgs: arguments of setErrorMessage; alerts: arguments of Alert.alert;
\* writes: completed setItem calls; rejected: keys whose setItem rejected;
\* navs: arguments of navigation.replace; decodes: arguments of jwtDecode
EmptyLog == [msgs |-> <<>>, alerts |-> <<>>, writes |-> <<>>, rejected |-> <<>>,
             navs |-> <<>>, decodes |-> <<>>]

\* the route on screen
route == routes[Len(routes)]

\* the Login screen is in the navigator's stack: the component exists and its
\* state updates take effect
Mounted == \E i \in DOMAIN routes : routes[i] = LoginRoute

\* the Login screen is the one on screen: its fields and buttons can be used
Focused == route = LoginRoute

Init ==
    /\ username = ""
    /\ password = ""
    /\ errorMessage = ""
    /\ storage = [k \in StorageKeys |-> NoItem]
    /\ routes = <<LoginRoute>>
    /\ pc = [p \in Runs |-> "idle"]
    /\ userData = [p \in Runs |-> NoUserData]
    /\ local = [p \in Runs |-> NoLocal]
    /\ delivered = [p \in Runs |-> NoDelivery]
    /\ log = [p \in Runs |-> EmptyLog]

\* setErrorMessage called with each of msgs in turn; a state update of a
\* screen that is no longer mounted is dropped
SetErrorMessages(msgs) ==
    IF msgs # <<>> /\ Mounted THEN msgs[Len(msgs)] ELSE errorMessage

-----------------------------------------------------------------------------
(* Actions *)

\* lines 119-122
handleUsernameChange(text) ==
    /\ Focused
    /\ username' = text
    /\ errorMessage' = ""
    /\ UNCHANGED <<password, storage, routes, pc, userData, local, delivered, log>>

\* lines 124-127
handlePasswordChange(text) ==
    /\ Focused
    /\ password' = text
    /\ errorMessage' = ""
    /\ UNCHANGED <<username, storage, routes, pc, userData, local, delivered, log>>

\* The Login button is pressed (line 169): handleLogin runs up to the await of
\* axios.post (lines 37-42).  The invocation takes the lowest free index.
handleLogin(p) ==
    /\ Focused
    /\ pc[p] = "idle"
    /\ \A q \in Runs : q < p => pc[q] # "idle"
    /\ errorMessage' = ""
    /\ userData' = [userData EXCEPT ![p] =
                        [username |-> username, password |-> password, sent |-> TRUE]]
    /\ pc' = [pc EXCEPT ![p] = "post"]
    /\ local' = [local EXCEPT ![p] = NoLocal]
    /\ delivered' = [delivered EXCEPT ![p] = NoDelivery]
    /\ log' = [log EXCEPT ![p] = [EmptyLog EXCEPT !.msgs = <<"">>]]
    /\ UNCHANGED <<username, password, storage, routes>>

\* the catch block runs and the handler ends (lines 102-117); rejectedKeys is
\* the key of the setItem call that threw, if that is what threw, and decoded
\* the token passed to jwtDecode, if that is what threw
Caught(p, error, rejectedKeys, decoded) ==
    LET c == CatchBlock(error) IN
    /\ errorMessage' = SetErrorMessages(c.msgs)
    /\ pc' = [pc EXCEPT ![p] = "idle"]
    /\ local' = [local EXCEPT ![p] = NoLocal]
    /\ log' = [log EXCEPT ![p].msgs = @ \o c.msgs, ![p].alerts = @ \o c.alerts,
                          ![p].rejected = @ \o rejectedKeys,
                          ![p].decodes = @ \o decoded]

\* axios.post resolves with a 2xx response: lines 46-75 and 99-101
PostResolved(p, response) ==
    /\ pc[p] = "post"
    /\ delivered' = [delivered EXCEPT ![p] = response]
    /\ userData' = [userData EXCEPT ![p] = NoUserData]
    /\ LET r == OnResponse(response) IN
       IF r.next = "throw"
       THEN Caught(p, PlainError, <<>>, r.decodes)
       ELSE /\ errorMessage' = SetErrorMessages(r.msgs)
            /\ pc' = [pc EXCEPT ![p] = IF r.next = "return" THEN "idle" ELSE r.next]
            /\ local' = [local EXCEPT ![p] = r.local]
            /\ log' = [log EXCEPT ![p].msgs = @ \o r.msgs, ![p].alerts = @ \o r.alerts,
                                  ![p].decodes = @ \o r.decodes]
    /\ UNCHANGED <<username, password, storage, routes>>

\* axios.post rejects: lines 102-116
PostRejected(p, error) ==
    /\ pc[p] = "post"
    /\ delivered' = [delivered EXCEPT ![p] = error]
    /\ userData' = [userData EXCEPT ![p] = NoUserData]
    /\ Caught(p, error, <<>>, <<>>)
    /\ UNCHANGED <<username, password, storage, routes>>

\* token written before role
PendingKey_TokenFirst(p) ==
    CASE pc[p] = "setRole"  -> "token"
      [] pc[p] = "setToken" -> "role"
      [] pc[p] = "setIdent" -> IdentKey(local[p].userRole)

\* the key and the value of the setItem call the invocation is suspended in
\* (lines 75, 76 and 79, 86, 93)
PendingKey(p) ==
    CASE pc[p] = "setRole"  -> "role"
      [] pc[p] = "setToken" -> "token"
      [] pc[p] = "setIdent" -> IdentKey(local[p].userRole)

PendingValue(p) ==
    CASE pc[p] = "setRole"  -> local[p].userRole
      [] pc[p] = "setToken" -> local[p].token
      [] pc[p] = "setIdent" -> local[p].studentNumber

\* navigation.replace(dest) called with the navigation object of the Login
\* screen (lines 81, 88, 94).  With Login on screen, dest takes its place.
\* With another screen on top of it, or with Login already replaced by an
\* overlapping invocation, what the navigator does is outside this source
\* file: it replaces the route the call came from if that route is still
\* there, or leaves the stack alone if it is not, or it replaces the route on
\* screen.
Replace(dest) ==
    { IF Mounted
      THEN [i \in DOMAIN routes |-> IF routes[i] = LoginRoute THEN dest ELSE routes[i]]
      ELSE routes,
      [i \in DOMAIN routes |-> IF i = Len(routes) THEN dest ELSE routes[i]] }

\* An awaited AsyncStorage.setItem resolves: the value is stored and the
\* handler goes on to its next setItem or, after the third one, calls
\* navigation.replace and ends (lines 75-98).
SetItemResolved(p) ==
    /\ pc[p] \in {"setRole", "setToken", "setIdent"}
    /\ storage' = [storage EXCEPT ![PendingKey(p)] = PendingValue(p)]
    /\ IF pc[p] = "setIdent"
       THEN LET dest == Destination(local[p].userRole, local[p].studentNumber) IN
            /\ routes' \in Replace(dest)
            /\ pc' = [pc EXCEPT ![p] = "idle"]
            /\ local' = [local EXCEPT ![p] = NoLocal]
            /\ log' = [log EXCEPT ![p].writes = Append(@, <<PendingKey(p), PendingValue(p)>>),
                                  ![p].navs = Append(@, dest)]
       ELSE /\ routes' = routes
            /\ pc' = [pc EXCEPT ![p] = IF pc[p] = "setRole" THEN "setToken" ELSE "setIdent"]
            /\ local' = local
            /\ log' = [log EXCEPT ![p].writes = Append(@, <<PendingKey(p), PendingValue(p)>>)]
    /\ UNCHANGED <<username, password, errorMessage, userData, delivered>>

\* An awaited AsyncStorage.setItem rejects: nothing is stored by that call
\* and control passes to the catch block (lines 102-116).
SetItemRejected(p) ==
    /\ pc[p] \in {"setRole", "setToken", "setIdent"}
    /\ Caught(p, PlainError, <<PendingKey(p)>>, <<>>)
    /\ UNCHANGED <<username, password, storage, routes, userData, delivered>>

\* 'Forgot Password?' is pressed: the inline handler of line 165
ForgotPasswordPressed ==
    /\ Focused
    /\ routes' = Append(routes, [name |-> "ForgotPassword"])
    /\ UNCHANGED <<username, password, errorMessage, storage,
                   pc, userData, local, delivered, log>>

\* 'Click here.' is pressed: the inline handler of line 174
CreateAccountPressed ==
    /\ Focused
    /\ routes' = Append(routes, [name |-> "CreateAccount"])
    /\ UNCHANGED <<username, password, errorMessage, storage,
                   pc, userData, local, delivered, log>>

\* The application is closed and started again: the component state is new,
\* the invocations in flight are gone, AsyncStorage keeps its content.
Relaunch ==
    /\ username' = ""
    /\ password' = ""
    /\ errorMessage' = ""
    /\ routes' = <<LoginRoute>>
    /\ pc' = [p \in Runs |-> "idle"]
    /\ userData' = [p \in Runs |-> NoUserData]
    /\ local' = [p \in Runs |-> NoLocal]
    /\ delivered' = [p \in Runs |-> NoDelivery]
    /\ log' = [p \in Runs |-> EmptyLog]
    /\ UNCHANGED storage

\* The steps of the program when the server answers with one of `responses`
\* or the request fails with one of `errors`.  The buttons can be pressed and
\* the fields edited whenever the Login screen is on screen: nothing disables
\* them while an invocation is in flight.
NextWith(responses, errors) ==
    \/ \E text \in Usernames : handleUsernameChange(text)
    \/ \E text \in Passwords : handlePasswordChange(text)
    \/ \E p \in Runs : handleLogin(p)
    \/ \E p \in Runs, response \in responses : PostResolved(p, response)
    \/ \E p \in Runs, error \in errors : PostRejected(p, error)
    \/ \E p \in Runs : SetItemResolved(p)
    \/ \E p \in Runs : SetItemRejected(p)
    \/ ForgotPasswordPressed
    \/ CreateAccountPressed
    \/ Relaunch

Next == NextWith(Responses, Rejections)

Spec == Init /\ [][Next]_vars

-----------------------------------------------------------------------------
(* The program on chosen sets of server answers *)

LoginGuest ==
    [kind |-> "response", status |-> 200, data |-> Str("G-17"), token |-> Str(TokGuest)]
LoginStudent ==
    [kind |-> "response", status |-> 200, data |-> Num(2021001234),
     token |-> Str(TokStudent)]

\* a guest and a student log in; setItem and the request can fail
NextLogins == NextWith({LoginGuest, LoginStudent}, {PlainError})

SpecLogins == Init /\ [][NextLogins]_vars

\* logins whose tokens carry several entries, with a textual, a structured
\* and a numeric body
TagLogins ==
    {[kind |-> "response", status |-> 200, data |-> Str("G-17"), token |-> Str(TokEmployee)],
     [kind |-> "response", status |-> 200, data |-> Obj(7), token |-> Str(TokBoth)],
     LoginStudent}

NextTags == NextWith(TagLogins, {PlainError})

SpecTags == Init /\ [][NextTags]_vars

\* the answers that do not log in: another 2xx status, no subject identifier,
\* no token, a token that cannot be decoded or has no role
FailingResponses ==
    {r \in Responses :
        \/ r.status # 200
        \/ r.data \in {Null, Str(""), Num(0)} /\ r.token \in {Undefined, Str(TokGuest)}
        \/ /\ r.data \in {Str("G-17"), Num(2021001234)}
           /\ r.token \in {Undefined, Str(""), Str(TokNoRole), Str(TokNoClaim),
                           Str(TokGarbage)}}

\* one login, every failing answer and every rejection
NextFailures == NextWith({LoginGuest} \cup FailingResponses, Rejections)

SpecFailures == Init /\ [][NextFailures]_vars

\* the answers of the specification with fairness, one for every way
\* handleLogin ends: the login; a response without a body (49-52), without a
\* token (60-63), with a token that carries no ROLE_ entry (70-73), with a
\* token jwtDecode throws on (65), with a status other than 200 (99-101)
FairResponses ==
    {LoginGuest} \cup
    { r \in Responses :
        \/ r.status = 200 /\ r.data = Null /\ r.token = Str(TokGuest)
        \/ /\ r.status = 200
           /\ r.data = Str("G-17")
           /\ r.token \in {Undefined, Str(TokNoRole), Str(TokGarbage)}
        \/ r.status = 201 /\ r.data = Str("G-17") /\ r.token = Str(TokStudent) }

\* and one rejection for every branch of the catch block: no response and no
\* request (109-115), status 400 (103-104), another status with and without a
\* server message (105-108)
FairRejections ==
    { e \in Rejections :
        \/ e.response = Undefined
        \/ e.response.status = 400 /\ e.response.data = Undefined
        \/ /\ e.response.status = 500
           /\ e.response.data \in {[t |-> "object", message |-> Str("")],
                                   [t |-> "object", message |-> Str("Account is locked.")]} }

NextFair == NextWith(FairResponses, FairRejections)

\* the steps of invocation p that the environment brings about: the network
\* call settles, an AsyncStorage write settles
Settles(p) ==
    \/ \E response \in FairResponses : PostResolved(p, response)
    \/ \E error \in FairRejections : PostRejected(p, error)
    \/ SetItemResolved(p)
    \/ SetItemRejected(p)

\* the network call and every AsyncStorage write eventually complete or fail
SpecFair == Init /\ [][NextFair]_vars /\ \A p \in Runs : WF_vars(Settles(p))

-----------------------------------------------------------------------------
(* Vocabulary of the claims, stated on what was delivered to an invocation
   and on what the invocation did, independently of the handler's own tests *)

\* an empty or absent value
Absent(v) == v \in {Undefined, Null, Str(""), Num(0)}

IsResponse(d) == d.kind = "response"
IsRejection(d) == d.kind = "error"

HasRoleEntry(authorities) ==
    \E i \in DOMAIN authorities : Includes(authorities[i], "ROLE_")

\* the first entry, in sequence order, that contains ROLE_
MatchedTag(authorities) ==
    authorities[CHOOSE i \in DOMAIN authorities :
                    /\ Includes(authorities[i], "ROLE_")
                    /\ \A j \in 1..(i - 1) : ~Includes(authorities[j], "ROLE_")]

\* status 200, a subject identifier, a jwt-token header, and decoded
\* authorities with an entry containing ROLE_
ValidDelivery(d) ==
    /\ IsResponse(d)
    /\ d.status = 200
    /\ ~Absent(d.data)
    /\ ~Absent(d.token)
    /\ jwtDecode(d.token.s).ok
    /\ jwtDecode(d.token.s).hasAuthorities
    /\ HasRoleEntry(jwtDecode(d.token.s).authorities)

TagOf(d) == MatchedTag(jwtDecode(d.token.s).authorities)

\* the area of the application a role tag belongs to
AreaOf(tag) ==
    IF Includes(tag, "ROLE_GUEST") THEN "Guests"
    ELSE IF Includes(tag, "ROLE_EMPLOYEE") THEN "Employees"
    ELSE "Students"

SlotOfArea(area) ==
    CASE area = "Guests"    -> "guestId"
      [] area = "Employees" -> "employeeNumber"
      [] area = "Students"  -> "studentNumber"

SlotOf(d) == SlotOfArea(AreaOf(TagOf(d)))

\* the subject identifier of a response as it is to be stored
IdentOf(d) == IF d.data = Num(2021001234) THEN Str("2021001234") ELSE d.data

\* invocation p has ended and what it did is still on record
Ended(p) == pc[p] = "idle" /\ delivered[p] # NoDelivery

\* this step is the one in which invocation p ends
EndsNow(p) == pc[p] # "idle" /\ pc'[p] = "idle" /\ delivered'[p] # NoDelivery

WrittenKeys(p) == {log[p].writes[i][1] : i \in DOMAIN log[p].writes}

KeySequence(p) == [i \in DOMAIN log[p].writes |-> log[p].writes[i][1]]

LastMsg(p) == log[p].msgs[Len(log[p].msgs)]

\* no other invocation is on record: none has overlapped invocation p
OnItsOwn(p) == \A q \in Runs \ {p} : pc[q] = "idle" /\ log[q] = EmptyLog

\* the invocation wrote nothing and dispatched nothing
NoSessionEffect(p) == log[p].writes = <<>> /\ log[p].navs = <<>>

-----------------------------------------------------------------------------
(* Claims *)

\* C1: persistence is all-or-nothing.  An invocation that has ended, with
\* routing or with an error, has left in AsyncStorage either all three of
\* role, token and its identifier, or nothing: never role without token or
\* without the identifier.
C1_AllOrNothing ==
    \A p \in Runs :
        Ended(p) =>
            \/ log[p].writes = <<>>
            \/ /\ ValidDelivery(delivered[p])
               /\ WrittenKeys(p) = {"role", "token", SlotOf(delivered[p])}
               /\ \A k \in WrittenKeys(p) : storage[k] # NoItem

\* The session a valid response establishes: role, token and identifier are
\* stored, and navigation.replace was called once, for the role's area.
SessionEstablished(p) ==
    /\ storage["role"] = Str(TagOf(delivered[p]))
    /\ storage["token"] = delivered[p].token
    /\ storage[SlotOf(delivered[p])] = IdentOf(delivered[p])
    /\ Len(log[p].navs) = 1
    /\ log[p].navs[1].name = "Main"
    /\ log[p].navs[1].screen = AreaOf(TagOf(delivered[p]))

\* C2 as stated: every invocation that received a valid response ends with
\* the session stored and one dispatch to the role's area.
C2_EveryValidResponse ==
    \A p \in Runs :
        Ended(p) /\ ValidDelivery(delivered[p]) => SessionEstablished(p)

\* the three writes of a session, in the order of the code: role = the
\* matched authority tag, token = the header token, and the subject identifier
\* in the slot of the role (a numeric body as its decimal string, a textual
\* or structured body as it was received)
SessionWrites(d) ==
    << <<"role", Str(TagOf(d))>>,
       <<"token", d.token>>,
       <<SlotOf(d), IdentOf(d)>> >>

\* C2 as amended: of the invocations that received a valid response,
\* (1) one whose three AsyncStorage.setItem calls all resolved has written
\*     role, token and the subject identifier (a numeric body as its decimal
\*     string, any other body as received) to the slot of the role, in that
\*     order, and has made exactly one dispatch, to the role's area; when no
\*     other invocation overlapped it, the store holds those three values
\*     when it has ended;
\* (2) one with a rejected setItem call has ended in the catch block: the
\*     writes before the rejected one are made, none after it, the message and
\*     the alert "Request error. Please try again." are raised and there is
\*     no dispatch;
\* (3) every value is in the store when its write completes;
\* (4) with the Login screen on screen the dispatch puts the role's area on
\*     screen in its place.
C2_ValidResponseAndWrites ==
    /\ [](\A p \in Runs :
            Ended(p) /\ ValidDelivery(delivered[p]) /\ log[p].rejected = <<>>
            => /\ log[p].writes = SessionWrites(delivered[p])
               /\ Len(log[p].navs) = 1
               /\ log[p].navs[1].name = "Main"
               /\ log[p].navs[1].screen = AreaOf(TagOf(delivered[p]))
               /\ OnItsOwn(p) => SessionEstablished(p))
    /\ [](\A p \in Runs :
            Ended(p) /\ ValidDelivery(delivered[p]) /\ log[p].rejected # <<>>
            => LET n == Len(log[p].writes) IN
               /\ n < 3
               /\ log[p].writes = SubSeq(SessionWrites(delivered[p]), 1, n)
               /\ log[p].rejected = <<SessionWrites(delivered[p])[n + 1][1]>>
               /\ LastMsg(p) = MsgRequestError
               /\ log[p].alerts = <<Alert("Login Error", MsgRequestError)>>
               /\ log[p].navs = <<>>)
    /\ [][\A p \in Runs :
            ValidDelivery(delivered[p]) /\ Len(log'[p].writes) = Len(log[p].writes) + 1
            => LET w == log'[p].writes[Len(log'[p].writes)] IN
               /\ w = SessionWrites(delivered[p])[Len(log'[p].writes)]
               /\ storage'[w[1]] = w[2]]_vars
    /\ [][\A p \in Runs :
            EndsNow(p) /\ log'[p].navs # <<>> /\ Focused
            => /\ route' = log'[p].navs[1]
               /\ ~Mounted']_vars

\* a numeric body 2021001234 with authorities [openid, ROLE_STUDENT] has given
\* role = ROLE_STUDENT, studentNumber = "2021001234", the Students area
C2_Witness ==
    \E p \in Runs :
        /\ Ended(p)
        /\ delivered[p] = LoginStudent
        /\ log[p].rejected = <<>>
        /\ OnItsOwn(p)
        /\ storage["role"] = Str("ROLE_STUDENT")
        /\ storage["token"] = Str(TokStudent)
        /\ storage["studentNumber"] = Str("2021001234")
        /\ route.name = "Main"
        /\ route.screen = "Students"

\* the empty store with the writes of invocation p applied to it
AloneOnEmptyStore(p) ==
    [k \in StorageKeys |->
        IF k \in WrittenKeys(p)
        THEN log[p].writes[CHOOSE i \in DOMAIN log[p].writes :
                               /\ log[p].writes[i][1] = k
                               /\ \A j \in DOMAIN log[p].writes :
                                      log[p].writes[j][1] = k => j <= i][2]
        ELSE NoItem]

\* C3: a login overwrites the prior session entirely.  After a successful
\* invocation that no other invocation overlapped, AsyncStorage equals what
\* that invocation alone produces on an empty store: no slot keeps a value of
\* an earlier login.
C3_FullOverwrite ==
    \A p \in Runs :
        Ended(p) /\ log[p].navs # <<>> /\ OnItsOwn(p) => storage = AloneOnEmptyStore(p)

\* the writes invocation p made to identifier slots
IdentWrites(p) == {i \in DOMAIN log[p].writes : log[p].writes[i][1] \in IdentKeys}

\* C4: a valid login writes exactly one of guestId, employeeNumber and
\* studentNumber, the one of the resolved role, and leaves the other two as
\* they were: an invocation never writes an identifier slot of another role,
\* one that completes writes its own slot exactly once, and an identifier
\* slot changes only by the write of an invocation whose role it belongs to.
C4_OneIdentSlot ==
    /\ [](\A p \in Runs :
            /\ \A i \in IdentWrites(p) :
                   /\ ValidDelivery(delivered[p])
                   /\ log[p].writes[i][1] = SlotOf(delivered[p])
            /\ log[p].navs # <<>> => Cardinality(IdentWrites(p)) = 1)
    /\ [][\A k \in IdentKeys :
            storage'[k] # storage[k] =>
                \E p \in Runs : /\ pc[p] = "setIdent"
                                /\ ValidDelivery(delivered[p])
                                /\ k = SlotOf(delivered[p])
                                /\ storage'[k] = IdentOf(delivered[p])]_vars

\* a student login has written studentNumber while guestId still holds the
\* value of an earlier guest login
C4_Witness ==
    \E p \in Runs :
        /\ Ended(p)
        /\ log[p].navs # <<>>
        /\ OnItsOwn(p)
        /\ ValidDelivery(delivered[p])
        /\ SlotOf(delivered[p]) = "studentNumber"
        /\ storage["studentNumber"] = Str("2021001234")
        /\ storage["guestId"] = Str("G-17")
        /\ storage["employeeNumber"] = NoItem

\* C5: navigation.replace is called only after role, token and the identifier
\* have been written, in that order; when one of the writes fails the
\* invocation ends with an error raised to the user (the inline message set,
\* shown while the Login screen exists, and an alert) and without a dispatch.
C5_DispatchAfterWrites ==
    /\ [](\A p \in Runs :
            log[p].navs # <<>> =>
                /\ ValidDelivery(delivered[p])
                /\ log[p].rejected = <<>>
                /\ log[p].writes = << <<"role", Str(TagOf(delivered[p]))>>,
                                      <<"token", delivered[p].token>>,
                                      <<SlotOf(delivered[p]), IdentOf(delivered[p])>> >>)
    /\ [](\A p \in Runs :
            log[p].rejected # <<>> =>
                /\ Ended(p)
                /\ log[p].navs = <<>>
                /\ LastMsg(p) # ""
                /\ log[p].alerts # <<>>)
    /\ [][\A p \in Runs :
            EndsNow(p) /\ log'[p].rejected # <<>> =>
                /\ Mounted => errorMessage' = LastMsg(p)'
                /\ routes' = routes]_vars

\* the token write failed after the role write: an error is shown, the
\* Login screen stays
C5_Witness ==
    \E p \in Runs :
        /\ Ended(p)
        /\ log[p].rejected = <<"token">>
        /\ WrittenKeys(p) = {"role"}
        /\ log[p].navs = <<>>
        /\ errorMessage = MsgRequestError
        /\ route = LoginRoute

\* C6: a 200 response with an empty or absent subject identifier ends the
\* flow with the inline message "Student number not received from server.",
\* without a write to AsyncStorage and without a dispatch, whatever the
\* credentials.
C6_MissingSubjectId ==
    [][\A p \in Runs :
        (/\ EndsNow(p)
         /\ IsResponse(delivered'[p])
         /\ delivered'[p].status = 200
         /\ Absent(delivered'[p].data))
        => /\ Mounted => errorMessage' = MsgMissingSubjectId
           /\ log'[p].msgs = <<"", MsgMissingSubjectId>>
           /\ NoSessionEffect(p)'
           /\ storage' = storage
           /\ routes' = routes]_vars

\* the body 0 came with a valid token, for credentials alice / wrongpass
C6_Witness ==
    \E p \in Runs :
        /\ Ended(p)
        /\ delivered[p] = [kind |-> "response", status |-> 200,
                           data |-> Num(0), token |-> Str(TokGuest)]
        /\ username = "alice" /\ password = "wrongpass"
        /\ errorMessage = MsgMissingSubjectId
        /\ NoSessionEffect(p)

\* C7: a 200 response with a subject identifier and a token whose decoded
\* authorities have no entry containing ROLE_, or no authorities claim, ends
\* the flow with the alert "Unauthorized role. Please try again.", without a
\* write to AsyncStorage and without a dispatch.
C7_Unauthorized ==
    [][\A p \in Runs :
        (/\ EndsNow(p)
         /\ IsResponse(delivered'[p])
         /\ delivered'[p].status = 200
         /\ ~Absent(delivered'[p].data)
         /\ ~Absent(delivered'[p].token)
         /\ jwtDecode(delivered'[p].token.s).ok
         /\ \/ ~jwtDecode(delivered'[p].token.s).hasAuthorities
            \/ ~HasRoleEntry(jwtDecode(delivered'[p].token.s).authorities))
        => /\ log'[p].alerts = <<Alert("Error", MsgUnauthorized)>>
           /\ NoSessionEffect(p)'
           /\ storage' = storage
           /\ routes' = routes]_vars

\* authorities [openid, role_guest]: no entry contains ROLE_
C7_Witness ==
    \E p \in Runs :
        /\ Ended(p)
        /\ delivered[p] = [kind |-> "response", status |-> 200,
                           data |-> Str("G-17"), token |-> Str(TokNoRole)]
        /\ log[p].alerts = <<Alert("Error", MsgUnauthorized)>>
        /\ NoSessionEffect(p)

\* C8: status 200 is the only success path.  A resolved response with another
\* 2xx status and a rejection that carries a response both end the flow with
\* a non-empty inline message, without a write to AsyncStorage and without a
\* dispatch.
C8_Only200Succeeds ==
    [][\A p \in Runs :
        (/\ EndsNow(p)
         /\ \/ IsResponse(delivered'[p]) /\ delivered'[p].status # 200
            \/ /\ IsRejection(delivered'[p])
               /\ delivered'[p].response # Undefined
               /\ delivered'[p].response.status # 200)
        => /\ LastMsg(p)' # ""
           /\ Mounted => errorMessage' = LastMsg(p)'
           /\ IsResponse(delivered'[p]) => LastMsg(p)' = MsgLoginFailed
           /\ NoSessionEffect(p)'
           /\ storage' = storage
           /\ routes' = routes]_vars

\* status 201 with a complete payload has failed
C8_Witness ==
    \E p \in Runs :
        /\ Ended(p)
        /\ delivered[p] = [kind |-> "response", status |-> 201,
                           data |-> Str("G-17"), token |-> Str(TokStudent)]
        /\ errorMessage = MsgLoginFailed
        /\ NoSessionEffect(p)

\* C9: on status 400 the inline message is exactly "Incorrect username or
\* password. Please try again.", nothing is written to AsyncStorage and there
\* is no dispatch.
C9_InvalidCredentials ==
    [][\A p \in Runs :
        (/\ EndsNow(p)
         /\ IsRejection(delivered'[p])
         /\ delivered'[p].response # Undefined
         /\ delivered'[p].response.status = 400)
        => /\ Mounted => errorMessage' = MsgInvalidCreds
           /\ log'[p].msgs = <<"", MsgInvalidCreds>>
           /\ MsgInvalidCreds = "Incorrect username or password. Please try again."
           /\ NoSessionEffect(p)'
           /\ storage' = storage
           /\ routes' = routes]_vars

\* alice / wrongpass, and the 400 response carried a message of its own
C9_Witness ==
    \E p \in Runs :
        /\ Ended(p)
        /\ IsRejection(delivered[p])
        /\ delivered[p].response # Undefined
        /\ delivered[p].response.status = 400
        /\ delivered[p].response.data = [t |-> "object", message |-> Str("Account is locked.")]
        /\ username = "alice" /\ password = "wrongpass"
        /\ errorMessage = MsgInvalidCreds
        /\ NoSessionEffect(p)

\* the request was sent and no response was received
NoResponseReceived(d) == IsRejection(d) /\ d.response = Undefined /\ d.request

\* C10: when the request was sent and no response was received, the flow ends
\* with the NoResponse message inline and in an alert, AsyncStorage is
\* unchanged, there is no dispatch, and the flow is idle: with the Login
\* screen on screen a new submit is accepted.
C10_NoResponse ==
    /\ [][\A p \in Runs :
            EndsNow(p) /\ NoResponseReceived(delivered'[p])
            => /\ Mounted => errorMessage' = MsgNoResponse
               /\ log'[p].msgs = <<"", MsgNoResponse>>
               /\ log'[p].alerts = <<Alert("Login Error", MsgNoResponse)>>
               /\ NoSessionEffect(p)'
               /\ storage' = storage
               /\ routes' = routes]_vars
    /\ [](\A p \in Runs :
            Ended(p) /\ NoResponseReceived(delivered[p])
            => /\ pc[p] = "idle"
               /\ Focused => ENABLED (\E q \in Runs : handleLogin(q)))

\* no response, with a session of an earlier login in AsyncStorage
C10_Witness ==
    \E p \in Runs :
        /\ Ended(p)
        /\ NoResponseReceived(delivered[p])
        /\ errorMessage = MsgNoResponse
        /\ storage["role"] = Str("ROLE_GUEST")
        /\ storage["guestId"] = Str("G-17")
        /\ NoSessionEffect(p)

\* C11: the role is decided by the first entry of authorities, in sequence
\* order, that contains ROLE_: Guest if that entry contains ROLE_GUEST, else
\* Employee if it contains ROLE_EMPLOYEE, else Student.  The role tag kept and
\* stored, the identifier slot and the destination area are those of that
\* entry, whatever entries follow it.
C11_FirstMatchDecides ==
    \A p \in Runs :
        ValidDelivery(delivered[p]) =>
            LET tag == TagOf(delivered[p]) IN
            /\ pc[p] # "idle" => local[p].userRole = Str(tag)
            /\ \A i \in DOMAIN log[p].writes :
                   /\ log[p].writes[i][1] = "role" => log[p].writes[i][2] = Str(tag)
                   /\ log[p].writes[i][1] \in IdentKeys =>
                          log[p].writes[i][1] = SlotOfArea(AreaOf(tag))
            /\ \A i \in DOMAIN log[p].navs : log[p].navs[i].screen = AreaOf(tag)

\* authorities [ROLE_EMPLOYEE, ROLE_ADMIN_SHADOW] have resolved to Employee
C11_Witness ==
    \E p \in Runs :
        /\ Ended(p)
        /\ IsResponse(delivered[p])
        /\ delivered[p].token = Str(TokEmployee)
        /\ jwtDecode(TokEmployee).authorities = <<"ROLE_EMPLOYEE", "ROLE_ADMIN_SHADOW">>
        /\ log[p].navs # <<>>
        /\ log[p].navs[1].screen = "Employees"
        /\ storage["role"] = Str("ROLE_EMPLOYEE")
        /\ storage["employeeNumber"] = Str("G-17")

\* C12: for each of the three roles the dispatch goes to the role's area and
\* passes the role's identifier (guestId, employeeNumber or studentNumber) as
\* a parameter to the entry view of that area.
C12_IdentifierPassed ==
    \A p \in Runs :
        \A i \in DOMAIN log[p].navs :
            LET nav == log[p].navs[i]
                key == SlotOf(delivered[p])
            IN  /\ nav.screen = AreaOf(TagOf(delivered[p]))
                /\ key \in DOMAIN nav.params
                /\ nav.params[key] = IdentOf(delivered[p])

\* the outcome of an ended invocation
Succeeded(p) == Ended(p) /\ log[p].navs # <<>>
Failed(p) == Ended(p) /\ log[p].navs = <<>>

\* the button press starts a new flow
SubmitAccepted == ENABLED (\E q \in Runs : handleLogin(q))

\* C13: if the network call and the store writes eventually complete or fail,
\* every submit resolves: an invocation in flight ends; when it ends it has
\* either dispatched to the Router or it has set a non-empty inline message
\* (shown while the Login screen exists) or raised an alert, and it is idle
\* again; and after a failed flow, with the Login screen on screen, a new
\* submit is accepted at once.
C13_SubmitResolves ==
    /\ \A p \in Runs : (pc[p] # "idle") ~> (pc[p] = "idle")
    /\ [][\A p \in Runs :
             EndsNow(p) =>
                 \/ /\ log'[p].navs # <<>>
                    /\ Focused => route' = log'[p].navs[1]
                 \/ /\ log'[p].navs = <<>>
                    /\ \/ /\ LastMsg(p)' # ""
                          /\ Mounted => errorMessage' = LastMsg(p)'
                       \/ log'[p].alerts # <<>>
                    /\ routes' = routes]_vars
    /\ [](\A p \in Runs : Failed(p) /\ Focused => SubmitAccepted)

\* a flow has failed on the rejected write of the token: its message is on
\* the screen, the role it wrote is in the store, and the button can be pressed
C13_Witness ==
    \E p \in Runs :
        /\ Failed(p)
        /\ log[p].rejected = <<"token">>
        /\ errorMessage = MsgRequestError
        /\ storage["role"] = Str("ROLE_GUEST")
        /\ Focused
        /\ SubmitAccepted

\* C14: every value written to AsyncStorage is a string; in particular the
\* identifier written to guestId, employeeNumber or studentNumber is in
\* string form whatever the truthy response body was.
C14_WritesAreStrings ==
    \A p \in Runs :
        \A i \in DOMAIN log[p].writes :
            /\ log[p].writes[i][2].t = "string"
            /\ storage[log[p].writes[i][1]].t = "string"

\* a 200 response with a subject identifier and an absent or empty
\* jwt-token header
TokenMissing(d) ==
    /\ IsResponse(d)
    /\ d.status = 200
    /\ ~Absent(d.data)
    /\ d.token \in {Undefined, Str("")}

\* C15: a 200 response with a subject identifier but an absent or empty
\* jwt-token header ends the flow with the MissingToken inline message, before
\* any token decode, with no AsyncStorage write and no dispatch.
C15_MissingToken ==
    /\ [][\A p \in Runs :
            EndsNow(p) /\ TokenMissing(delivered'[p])
            => /\ Mounted => errorMessage' = MsgMissingToken
               /\ storage' = storage
               /\ routes' = routes]_vars
    /\ [](\A p \in Runs :
            Ended(p) /\ TokenMissing(delivered[p])
            => /\ log[p].msgs = <<"", MsgMissingToken>>
               /\ log[p].decodes = <<>>
               /\ log[p].alerts = <<>>
               /\ NoSessionEffect(p))

\* the header is empty, the body is an identifier
C15_Witness ==
    \E p \in Runs :
        /\ Ended(p)
        /\ delivered[p] = [kind |-> "response", status |-> 200,
                           data |-> Str("G-17"), token |-> Str("")]
        /\ errorMessage = MsgMissingToken
        /\ log[p].decodes = <<>>
        /\ NoSessionEffect(p)

\* a 200 response with a subject identifier and a token that is no JWT
Undecodable(d) ==
    /\ IsResponse(d)
    /\ d.status = 200
    /\ ~Absent(d.data)
    /\ d.token = Str(TokGarbage)

\* C16: when the token is present but cannot be decoded, the flow fails: the
\* decode was attempted, a non-empty message is set (shown while the Login
\* screen exists), nothing is written to AsyncStorage, there is no dispatch
\* and the flow is idle again.
C16_UndecodableToken ==
    /\ [][\A p \in Runs :
            EndsNow(p) /\ Undecodable(delivered'[p])
            => /\ Mounted => errorMessage' # "" /\ errorMessage' = LastMsg(p)'
               /\ storage' = storage
               /\ routes' = routes
               /\ pc'[p] = "idle"]_vars
    /\ [](\A p \in Runs :
            Ended(p) /\ Undecodable(delivered[p])
            => /\ log[p].decodes = <<Str(TokGarbage)>>
               /\ LastMsg(p) # ""
               /\ NoSessionEffect(p))

\* the undecodable token came with a numeric identifier
C16_Witness ==
    \E p \in Runs :
        /\ Ended(p)
        /\ delivered[p] = [kind |-> "response", status |-> 200,
                           data |-> Num(2021001234), token |-> Str(TokGarbage)]
        /\ errorMessage = MsgRequestError
        /\ log[p].alerts = <<Alert("Login Error", MsgRequestError)>>
        /\ NoSessionEffect(p)

\* C17: pressing the button clears the inline message; while the flow is in
\* flight the message shown is empty; once the flow has ended the message
\* shown is empty or is the one this flow set last, never one of an earlier
\* flow.
C17_MessageCleared ==
    /\ [][\A p \in Runs :
            pc[p] = "idle" /\ pc'[p] = "post" => errorMessage' = ""]_vars
    /\ [](\A p \in Runs :
            /\ pc[p] # "idle" => errorMessage = ""
            /\ Ended(p) => errorMessage \in {"", LastMsg(p)})

\* the server answered with a status outside 2xx other than 400
OtherErrorResponse(d) ==
    /\ IsRejection(d)
    /\ d.response # Undefined
    /\ d.response.status # 400

\* the text to show for it: the message field of the body when there is one
\* and it is not empty, else the generic text
ServerText(d) ==
    LET body == d.response.data IN
    IF /\ body # Undefined
       /\ body.message # Undefined
       /\ body.message # Str("")
    THEN body.message.s
    ELSE MsgInvalidRequest

\* C18: for an error response with a status other than 400 the inline message
\* and the alert show the same text, the server's message when it is present
\* and not empty and the generic invalid-request text otherwise; nothing is
\* written to AsyncStorage and there is no dispatch.
C18_ServerRejected ==
    /\ [][\A p \in Runs :
            EndsNow(p) /\ OtherErrorResponse(delivered'[p])
            => /\ Mounted => errorMessage' = ServerText(delivered'[p])
               /\ storage' = storage
               /\ routes' = routes]_vars
    /\ [](\A p \in Runs :
            Ended(p) /\ OtherErrorResponse(delivered[p])
            => /\ log[p].msgs = <<"", ServerText(delivered[p])>>
               /\ log[p].alerts = <<Alert("Login Error", ServerText(delivered[p]))>>
               /\ NoSessionEffect(p))

\* status 500 with a message of the server
C18_Witness ==
    \E p \in Runs :
        /\ Ended(p)
        /\ OtherErrorResponse(delivered[p])
        /\ delivered[p].response.status = 500
        /\ errorMessage = "Account is locked."
        /\ log[p].alerts = <<Alert("Login Error", "Account is locked.")>>
        /\ NoSessionEffect(p)

\* the store holds the role, the token and the identifier of delivery d
HoldsSessionOf(d) ==
    /\ storage["role"] = Str(TagOf(d))
    /\ storage["token"] = d.token
    /\ storage[SlotOf(d)] = IdentOf(d)

\* C19: a press while an invocation is in flight starts a second invocation,
\* and when two invocations that were in flight together have both run to
\* their dispatch, the store holds the role, token and identifier of one and
\* the same response of the two, and the identifier slot of the other
\* response's role is not populated unless it is the same slot.
C19_ConsistentStore ==
    /\ (\E p \in Runs : pc[p] # "idle") /\ (\E q \in Runs : pc[q] = "idle") /\ Focused
           => ENABLED (\E q \in Runs : handleLogin(q))
    /\ \A p, q \in Runs :
           p # q /\ Succeeded(p) /\ Succeeded(q) =>
               \/ /\ HoldsSessionOf(delivered[p])
                  /\ SlotOf(delivered[q]) # SlotOf(delivered[p])
                         => storage[SlotOf(delivered[q])] = NoItem
               \/ /\ HoldsSessionOf(delivered[q])
                  /\ SlotOf(delivered[p]) # SlotOf(delivered[q])
                         => storage[SlotOf(delivered[p])] = NoItem

====
